---- MODULE Spec2Model ----
(***************************************************************************)
(* fix_unmatched_images.py: removal of the files that exist on only one    *)
(* side of <root>/<split>/{image,index}.                                   *)
(*                                                                         *)
(* A file name is a sequence of one-character strings, a path below the    *)
(* root is <<split, subdirectory, file name>>.  Two specifications:        *)
(*   Spec     one run of main() over a dataset tree, with the unlink       *)
(*            outcomes and one concurrent remover as the environment;      *)
(*   SpecKey  build_key applied to bounded file names.                     *)
(* Lists are kept as sets where the program never reads their order (the   *)
(* listings, the lists under a key, the orphan lists: iterdir and set      *)
(* iteration give no order), so delete_files takes its files in any order. *)
(* Definitions whose name ends the way a fault would (DeleteGateOpen,      *)
(* UnlinkCountsOnly, ...) are faulty variants used to test the properties; *)
(* no specification uses them.                                             *)
(***************************************************************************)
EXTENDS Integers, Sequences, FiniteSets

VARIABLES
    args,           \* the parsed command line (main)
    rootKind,       \* split name -> kind of <root>/<split>
    subKind,        \* split name -> subdirectory name -> kind of <root>/<split>/<sub>
    files,          \* the regular files of the tree, as paths
    pc,             \* where the run stands
    i,              \* main: index of the split being processed (1-based)
    image_files, index_files,   \* process_split: the two listings
    image_map, index_map,       \* process_split: the two key maps
    orphan_img, orphan_idx,     \* process_split: the two orphan lists
    report_lines,               \* process_split: the report so far
    todo, deleted, errors,      \* delete_files: files left, counter, error list
    del_count_img, del_err_img, \* process_split: result of the first delete_files
    all_reports, all_errors,    \* main: the collected reports and error strings
    files0,         \* history: the files of the tree when the run started
    extRemoved,     \* history: the files removed by the concurrent remover
    calls,          \* history: one record per process_split call that returned
    cur,            \* history: the call in progress (tree at its start, unlink calls)
    pathlib,        \* which pathlib the interpreter ships (stem changed in 3.14)
    kbase, kext1, kext2, keys   \* SpecKey: the inputs and results of build_key

vars == <<args, rootKind, subKind, files, pc, i, image_files, index_files,
          image_map, index_map, orphan_img, orphan_idx, report_lines,
          todo, deleted, errors, del_count_img, del_err_img,
          all_reports, all_errors, files0, extRemoved, calls, cur,
          pathlib, kbase, kext1, kext2, keys>>

----------------------------------------------------------------------------
(* Bounds *)

MaxSplits == 2      \* length of the --splits list
MaxFiles == 2       \* regular files in the whole tree
MaxExternal == 1    \* removals by the concurrent remover during one run
MaxBaseLen == 3     \* SpecKey: characters before the last dot
MaxExtLen == 2      \* SpecKey: characters after the last dot

(* Program constants *)

PreviewLimit == 10  \* sorted(orphan_img)[:10]

----------------------------------------------------------------------------
(* Strings *)

Dot == "."

\* ord(c) of the characters in use
Ord(c) ==
    CASE c = Dot -> 46
      [] c = "A" -> 65
      [] c = "a" -> 97
      [] c = "b" -> 98
      [] c = "c" -> 99
      [] c = "d" -> 100
      [] c = "g" -> 103
      [] c = "i" -> 105
      [] c = "j" -> 106
      [] c = "p" -> 112
      [] c = "x" -> 120
      [] c = "y" -> 121

\* str.lower() on one character
LowerChar(c) == IF c = "A" THEN "a" ELSE c

\* str.lower()
Lower(s) == [k \in 1..Len(s) |-> LowerChar(s[k])]

\* str.rfind('.') as a 1-based position, 0 when there is no dot
RFindDot(s) ==
    LET D == {k \in 1..Len(s) : s[k] = Dot}
    IN  IF D = {} THEN 0 ELSE CHOOSE k \in D : \A m \in D : m <= k

\* str.lstrip('.')
RECURSIVE LStripDots(_)
LStripDots(s) ==
    IF s # <<>> /\ Head(s) = Dot THEN LStripDots(Tail(s)) ELSE s

\* s < t for str
RECURSIVE StrLess(_, _)
StrLess(s, t) ==
    IF t = <<>> THEN FALSE
    ELSE IF s = <<>> THEN TRUE
    ELSE IF Head(s) # Head(t) THEN Ord(Head(s)) < Ord(Head(t))
    ELSE StrLess(Tail(s), Tail(t))

\* all strings over C of a length in lo..hi
StringsOver(C, lo, hi) == UNION {[1..n -> C] : n \in lo..hi}

----------------------------------------------------------------------------
(* build_key *)

\* PurePath.stem up to Python 3.13: the part before the last dot, unless that
\* dot is the first or the last character
StemOld(name) ==
    LET j == RFindDot(name)
    IN  IF 1 < j /\ j < Len(name) THEN SubSeq(name, 1, j - 1) ELSE name

\* PurePath.stem from Python 3.14: the part before the last dot, unless that
\* part has no character other than dots
StemNew(name) ==
    LET j == RFindDot(name)
    IN  IF j # 0 /\ LStripDots(SubSeq(name, 1, j - 1)) # <<>>
        THEN SubSeq(name, 1, j - 1)
        ELSE name

stem(name) == IF pathlib = "3.14" THEN StemNew(name) ELSE StemOld(name)

build_key_keepext(name, ignore_ext, ignore_case) ==
    IF ignore_case THEN Lower(name) ELSE name

build_key(name, ignore_ext, ignore_case) ==
    LET key == IF ignore_ext THEN stem(name) ELSE name
    IN  IF ignore_case THEN Lower(key) ELSE key

----------------------------------------------------------------------------
(* The dataset tree *)

SplitNames == {"train", "valid"}
DirNames == {"image", "index"}
FileNames == {<<"a", Dot, "x">>, <<"a", Dot, "y">>, <<"A", Dot, "x">>}

Kinds == {"absent", "file", "dir"}

\* every path <root>/<split>/<sub>/<name> whose directory exists in the tree (rk, sk)
PathsUnder(rk, sk) ==
    {p \in SplitNames \X DirNames \X FileNames :
        rk[p[1]] = "dir" /\ sk[p[1]][p[2]] = "dir"}

\* Path.exists() of <root>/<split>
split_root_exists(s) == rootKind[s] # "absent"

\* Path.exists() of <root>/<split>/<sub>
exists(s, d) == rootKind[s] = "dir" /\ subKind[s][d] # "absent"

\* Path.is_dir() of <root>/<split>/<sub>
is_dir(s, d) == rootKind[s] = "dir" /\ subKind[s][d] = "dir"

\* the regular files directly in <root>/<split>/<sub>, F being the files of the tree
list_files(F, s, d) ==
    IF ~exists(s, d) \/ ~is_dir(s, d) THEN {}
    ELSE {p \in F : p[1] = s /\ p[2] = d}

collect_keys_map_by_name(fs, ignore_ext, ignore_case) ==
    [key \in {f[3] : f \in fs} |-> {f \in fs : f[3] = key}]

collect_keys_map(fs, ignore_ext, ignore_case) ==
    LET k(f) == build_key(f[3], ignore_ext, ignore_case)
    IN  [key \in {k(f) : f \in fs} |-> {f \in fs : k(f) = key}]

compute_orphans_one_per_key(im, xm) ==
    LET only_in_image == DOMAIN im \ DOMAIN xm
        only_in_index == DOMAIN xm \ DOMAIN im
    IN  <<{CHOOSE f \in im[k] : TRUE : k \in only_in_image},
          {CHOOSE f \in xm[k] : TRUE : k \in only_in_index}>>

compute_orphans(im, xm) ==
    LET image_keys == DOMAIN im
        index_keys == DOMAIN xm
        only_in_image == image_keys \ index_keys
        only_in_index == index_keys \ image_keys
    IN  <<UNION {im[k] : k \in only_in_image},
          UNION {xm[k] : k \in only_in_index}>>

\* sorted(paths) of paths of one directory: by file name
RECURSIVE SortedPaths(_)
SortedPaths(S) ==
    IF S = {} THEN <<>>
    ELSE LET m == CHOOSE p \in S : \A q \in S \ {p} : StrLess(p[3], q[3])
         IN  <<m>> \o SortedPaths(S \ {m})

\* the report lines that list one side's orphans
OrphanLines(side, orphans) ==
    LET srt == SortedPaths(orphans)
        n == Cardinality(orphans)
        shown == IF n > PreviewLimit THEN PreviewLimit ELSE n
    IN  <<[kind |-> "orphans", side |-> side, count |-> n]>>
        \o [k \in 1..shown |-> [kind |-> "preview", path |-> srt[k]]]
        \o (IF n > PreviewLimit THEN <<[kind |-> "more", count |-> n]>> ELSE <<>>)

\* report_lines after the scan
ScanReport(split, imgs, idxs, oimg, oidx) ==
    <<[kind |-> "scan", split |-> split,
       image |-> Cardinality(imgs), index |-> Cardinality(idxs)]>>
    \o OrphanLines("image", oimg) \o OrphanLines("index", oidx)

DeleteGateOpen(a) == TRUE

\* if do_delete:
DeleteGate(a) == a.do_delete

----------------------------------------------------------------------------
(* Initial states: a command line and a tree *)

NoCall == [files_before |-> {}, ext_before |-> {}, tried |-> <<>>, gone |-> {}, raised |-> {}]

Range(f) == {f[x] : x \in DOMAIN f}

\* the command line: --image-dir and --index-dir keep their defaults
ArgsInit(splitLists, extFlags) ==
    \E sl \in splitLists, ie \in extFlags, ic \in BOOLEAN, dd \in BOOLEAN :
        args = [splits |-> sl, image_dirname |-> "image", index_dirname |-> "index",
                ignore_ext |-> ie, ignore_case |-> ic, do_delete |-> dd]

\* Any tree of at most MaxFiles files below the splits the command line names (the
\* run reads nothing else).  A split root that is no directory has nothing below it.
TreeInit ==
    \E rk \in [SplitNames -> Kinds], sk \in [SplitNames -> [DirNames -> Kinds]] :
        /\ \A s \in SplitNames : rk[s] # "dir" => \A d \in DirNames : sk[s][d] = "absent"
        /\ \A s \in SplitNames \ Range(args.splits) : rk[s] = "absent"
        /\ rootKind = rk
        /\ subKind = sk
        /\ files \in {F \in SUBSET PathsUnder(rk, sk) : Cardinality(F) <= MaxFiles}

\* The tree of the spec's scenario: train/image = {a.jpg, b.jpg, c.jpg},
\* train/index = {a.idx, b.idx, d.idx}
Jpg(c) == <<c, Dot, "j", "p", "g">>
Idx(c) == <<c, Dot, "i", "d", "x">>

ScenarioFiles ==
    {<<"train", "image", Jpg(c)>> : c \in {"a", "b", "c"}} \cup
    {<<"train", "index", Idx(c)>> : c \in {"a", "b", "d"}}

ScenarioInit ==
    /\ rootKind = [s \in SplitNames |-> IF s = "train" THEN "dir" ELSE "absent"]
    /\ subKind = [s \in SplitNames |->
                    [d \in DirNames |-> IF s = "train" THEN "dir" ELSE "absent"]]
    /\ files = ScenarioFiles

\* the program's variables before main's loop
RunInit ==
    /\ i = 1
    /\ image_files = {} /\ index_files = {}
    /\ image_map = <<>> /\ index_map = <<>>
    /\ orphan_img = {} /\ orphan_idx = {}
    /\ report_lines = <<>>
    /\ todo = {} /\ deleted = 0 /\ errors = <<>>
    /\ del_count_img = 0 /\ del_err_img = <<>>
    /\ all_reports = <<>> /\ all_errors = <<>>
    /\ files0 = files
    /\ extRemoved = {}
    /\ calls = <<>>
    /\ cur = NoCall

\* (no file name of these trees has a stem that differs between the pathlibs)
Init ==
    /\ \/ ArgsInit(StringsOver(SplitNames, 1, MaxSplits), BOOLEAN) /\ TreeInit
       \/ ArgsInit({<<"train">>, <<"train", "train">>}, {TRUE}) /\ ScenarioInit
    /\ pathlib = "3.13"
    /\ RunInit
    /\ pc = "main"
    /\ kbase = <<>> /\ kext1 = <<>> /\ kext2 = <<>> /\ keys = <<>>

----------------------------------------------------------------------------
(* main and process_split *)

split == args.splits[i]
image_dir == <<split, args.image_dirname>>
index_dir == <<split, args.index_dirname>>

InLoop == pc = "main" /\ i <= Len(args.splits)

fsvars == <<rootKind, subKind>>
locals == <<image_files, index_files, image_map, index_map, orphan_img, orphan_idx,
            report_lines>>
dvars == <<todo, deleted, errors, del_count_img, del_err_img>>
keyvars == <<pathlib, kbase, kext1, kext2, keys>>

\* the history record of a call that returned
Call(outcome, report, errs, n_img, n_idx) ==
    [split |-> split, outcome |-> outcome, report |-> report, errors |-> errs,
     image_files |-> image_files', index_files |-> index_files',
     orphan_img |-> orphan_img', orphan_idx |-> orphan_idx',
     del_img |-> n_img, del_idx |-> n_idx,
     tried |-> cur'.tried, gone |-> cur'.gone, raised |-> cur'.raised,
     files_before |-> cur'.files_before,
     files_after |-> files, ext |-> extRemoved \ cur'.ext_before]

\* main: all_reports.append(rep); if err: all_errors.append(err)
Collect(rep, err) ==
    /\ all_reports' = Append(all_reports, rep)
    /\ all_errors' = IF err # <<>> THEN Append(all_errors, err) ELSE all_errors
    /\ i' = i + 1

\* process_split returning before the scan: the locals are as the last call left them
ReturnEarly(outcome, rep) ==
    /\ Collect(rep, <<>>)
    /\ cur' = [NoCall EXCEPT !.files_before = files, !.ext_before = extRemoved]
    /\ UNCHANGED <<locals, extRemoved>>
    /\ calls' = Append(calls, [Call(outcome, rep, <<>>, 0, 0) EXCEPT
                                 !.image_files = {}, !.index_files = {},
                                 !.orphan_img = {}, !.orphan_idx = {}])
    /\ UNCHANGED <<args, fsvars, files, pc, dvars, files0, keyvars>>

\* the split directory is absent
SplitMissing ==
    /\ InLoop
    /\ ~split_root_exists(split)
    /\ ReturnEarly("split_missing",
                   <<[kind |-> "split_missing", split |-> split, path |-> <<split>>]>>)

MissingLinesBoth ==
    <<[kind |-> "subdir_missing", split |-> split,
       image_dirname |-> args.image_dirname, index_dirname |-> args.index_dirname],
      [kind |-> "missing", path |-> image_dir],
      [kind |-> "missing", path |-> index_dir]>>

\* the report of a split that lacks a subdirectory
MissingLines ==
    <<[kind |-> "subdir_missing", split |-> split,
       image_dirname |-> args.image_dirname, index_dirname |-> args.index_dirname]>>
    \o (IF ~exists(image_dir[1], image_dir[2])
        THEN <<[kind |-> "missing", path |-> image_dir]>> ELSE <<>>)
    \o (IF ~exists(index_dir[1], index_dir[2])
        THEN <<[kind |-> "missing", path |-> index_dir]>> ELSE <<>>)

\* one of the two subdirectories is absent
SubdirMissing ==
    /\ InLoop
    /\ split_root_exists(split)
    /\ ~exists(image_dir[1], image_dir[2]) \/ ~exists(index_dir[1], index_dir[2])
    /\ ReturnEarly("subdir_missing", MissingLines)

\* the scan: the two listings, the two key maps, the orphans, the report so far
Scan ==
    /\ InLoop
    /\ split_root_exists(split)
    /\ exists(image_dir[1], image_dir[2]) /\ exists(index_dir[1], index_dir[2])
    /\ image_files' = list_files(files, image_dir[1], image_dir[2])
    /\ index_files' = list_files(files, index_dir[1], index_dir[2])
    /\ image_map' = collect_keys_map(image_files', args.ignore_ext, args.ignore_case)
    /\ index_map' = collect_keys_map(index_files', args.ignore_ext, args.ignore_case)
    /\ orphan_img' = compute_orphans(image_map', index_map')[1]
    /\ orphan_idx' = compute_orphans(image_map', index_map')[2]
    /\ report_lines' = ScanReport(split, image_files', index_files',
                                  orphan_img', orphan_idx')
    /\ cur' = [NoCall EXCEPT !.files_before = files, !.ext_before = extRemoved,
                              !.tried = [f \in orphan_img' \cup orphan_idx' |-> 0]]

\* a dry run: the scan and the dry-run line
ProcessSplitDryRun ==
    /\ Scan
    /\ ~DeleteGate(args)
    /\ Collect(report_lines' \o <<[kind |-> "dry_run"]>>, <<>>)
    /\ UNCHANGED extRemoved
    /\ calls' = Append(calls, Call("dry_run",
                                   report_lines' \o <<[kind |-> "dry_run"]>>,
                                   <<>>, 0, 0))
    /\ UNCHANGED <<args, fsvars, files, pc, dvars, files0, keyvars>>

\* a delete run: the scan, then delete_files(orphan_img) starts
ProcessSplitScan ==
    /\ Scan
    /\ DeleteGate(args)
    /\ pc' = "delete_image"
    /\ todo' = orphan_img'
    /\ deleted' = 0
    /\ errors' = <<>>
    /\ UNCHANGED <<args, fsvars, files, i, del_count_img, del_err_img,
                   all_reports, all_errors, files0, extRemoved, calls, keyvars>>

----------------------------------------------------------------------------
(* delete_files: one unlink per step *)

Deleting == pc \in {"delete_image", "delete_index"}

\* what every iteration of the loop does, whatever unlink answers
Attempt(f) ==
    /\ Deleting
    /\ f \in todo
    /\ todo' = todo \ {f}
    /\ UNCHANGED <<args, fsvars, pc, i, locals, del_count_img, del_err_img,
                   all_reports, all_errors, files0, extRemoved, calls, keyvars>>

UnlinkCountsOnly ==
    \E f \in todo :
        /\ Attempt(f)
        /\ f \in files
        /\ deleted' = deleted + 1
        /\ cur' = [cur EXCEPT !.tried[f] = @ + 1]
        /\ UNCHANGED <<files, errors>>

UnlinkRemovesInEverySplit ==
    \E f \in todo :
        /\ Attempt(f)
        /\ f \in files
        /\ files' = {g \in files : g[2] # f[2] \/ g[3] # f[3]}
        /\ deleted' = deleted + 1
        /\ cur' = [cur EXCEPT !.tried[f] = @ + 1]
        /\ UNCHANGED errors

\* unlink removes the file
UnlinkRemoves ==
    \E f \in todo :
        /\ Attempt(f)
        /\ f \in files
        /\ files' = files \ {f}
        /\ deleted' = deleted + 1
        /\ cur' = [cur EXCEPT !.tried[f] = @ + 1]
        /\ UNCHANGED errors

UnlinkMissingRaises ==
    \E f \in todo :
        /\ Attempt(f)
        /\ f \notin files
        /\ errors' = Append(errors, [path |-> f, reason |-> "FileNotFoundError"])
        /\ cur' = [cur EXCEPT !.tried[f] = @ + 1, !.gone = @ \cup {f}]
        /\ UNCHANGED <<files, deleted>>

\* the file is gone already: missing_ok=True swallows FileNotFoundError
UnlinkMissingOk ==
    \E f \in todo :
        /\ Attempt(f)
        /\ f \notin files
        /\ deleted' = deleted + 1
        /\ cur' = [cur EXCEPT !.tried[f] = @ + 1, !.gone = @ \cup {f}]
        /\ UNCHANGED <<files, errors>>

UnlinkRaisesAndStops ==
    \E f \in todo :
        /\ Deleting
        /\ todo' = {}
        /\ f \in files
        /\ errors' = Append(errors, [path |-> f, reason |-> "PermissionError"])
        /\ cur' = [cur EXCEPT !.tried[f] = @ + 1, !.raised = @ \cup {f}]
        /\ UNCHANGED <<files, deleted>>
        /\ UNCHANGED <<args, fsvars, pc, i, locals, del_count_img, del_err_img,
                       all_reports, all_errors, files0, extRemoved, calls, keyvars>>

\* unlink raises (permissions, I/O): the file stays and an error is recorded
UnlinkRaises ==
    \E f \in todo :
        /\ Attempt(f)
        /\ f \in files
        /\ errors' = Append(errors, [path |-> f, reason |-> "PermissionError"])
        /\ cur' = [cur EXCEPT !.tried[f] = @ + 1, !.raised = @ \cup {f}]
        /\ UNCHANGED <<files, deleted>>

\* delete_files(orphan_img) returns and delete_files(orphan_idx) starts
DeleteImageReturns ==
    /\ pc = "delete_image"
    /\ todo = {}
    /\ del_count_img' = deleted
    /\ del_err_img' = errors
    /\ pc' = "delete_index"
    /\ todo' = orphan_idx
    /\ deleted' = 0
    /\ errors' = <<>>
    /\ UNCHANGED <<args, fsvars, files, i, locals, all_reports, all_errors,
                   files0, extRemoved, calls, cur, keyvars>>

\* the report and error lines of a delete run
DeleteReport(n_img, n_idx) ==
    <<[kind |-> "deleted", side |-> "image", count |-> n_img,
       of |-> Cardinality(orphan_img)],
      [kind |-> "deleted", side |-> "index", count |-> n_idx,
       of |-> Cardinality(orphan_idx)]>>

ErrorLines(s, errs) ==
    [k \in 1..Len(errs) |->
        [kind |-> "delete_failed", split |-> split, side |-> s,
         path |-> errs[k].path, reason |-> errs[k].reason]]

\* delete_files(orphan_idx) returns, process_split returns, main collects
ProcessSplitReturns ==
    /\ pc = "delete_index"
    /\ todo = {}
    /\ pc' = "main"
    /\ Collect(report_lines \o DeleteReport(del_count_img, deleted),
               ErrorLines("image", del_err_img) \o ErrorLines("index", errors))
    /\ UNCHANGED <<locals, cur, extRemoved>>
    /\ calls' = Append(calls,
                       Call("deleted",
                            report_lines \o DeleteReport(del_count_img, deleted),
                            ErrorLines("image", del_err_img) \o ErrorLines("index", errors),
                            del_count_img, deleted))
    /\ UNCHANGED <<args, fsvars, files, dvars, files0, keyvars>>

\* main after the loop: the report is printed
Finish ==
    /\ pc = "main"
    /\ i > Len(args.splits)
    /\ pc' = "done"
    /\ UNCHANGED <<args, fsvars, files, i, locals, dvars, all_reports, all_errors,
                   files0, extRemoved, calls, cur, keyvars>>

\* another process removes a file of the tree while delete_files runs
ExternalRemove ==
    \E f \in files :
        /\ Deleting
        /\ Cardinality(extRemoved) < MaxExternal
        /\ files' = files \ {f}
        /\ extRemoved' = extRemoved \cup {f}
        /\ UNCHANGED <<args, fsvars, pc, i, locals, dvars, all_reports, all_errors,
                       files0, calls, cur, keyvars>>

Next ==
    \/ SplitMissing
    \/ SubdirMissing
    \/ ProcessSplitDryRun
    \/ ProcessSplitScan
    \/ UnlinkRemoves
    \/ UnlinkMissingOk
    \/ UnlinkRaises
    \/ DeleteImageReturns
    \/ ProcessSplitReturns
    \/ Finish
    \/ ExternalRemove

Spec == Init /\ [][Next]_vars

----------------------------------------------------------------------------
(* build_key on its own *)

KeyChars == {"a", "A", Dot}
ExtChars == {"x", "y"}

\* the file name <base>.<ext>
Dotted(base, ext) == base \o <<Dot>> \o ext

KeyInit ==
    /\ \E ie \in BOOLEAN, ic \in BOOLEAN :
        args = [splits |-> <<>>, image_dirname |-> "image", index_dirname |-> "index",
                ignore_ext |-> ie, ignore_case |-> ic, do_delete |-> FALSE]
    /\ rootKind = [s \in SplitNames |-> "absent"]
    /\ subKind = [s \in SplitNames |-> [d \in DirNames |-> "absent"]]
    /\ files = {}
    /\ pathlib \in {"3.13", "3.14"}
    /\ RunInit
    /\ pc = "build_key"
    /\ kbase \in StringsOver(KeyChars, 0, MaxBaseLen)
    /\ kext1 \in StringsOver(ExtChars, 0, MaxExtLen)
    /\ kext2 \in StringsOver(ExtChars, 0, MaxExtLen)
    /\ keys = <<>>

\* build_key of <base>, <base>.<ext1> and <base>.<ext2>
BuildKeys ==
    /\ pc = "build_key"
    /\ keys' = [bare |-> build_key(kbase, args.ignore_ext, args.ignore_case),
                one |-> build_key(Dotted(kbase, kext1), args.ignore_ext, args.ignore_case),
                two |-> build_key(Dotted(kbase, kext2), args.ignore_ext, args.ignore_case)]
    /\ pc' = "key_done"
    /\ UNCHANGED <<args, fsvars, files, i, locals, dvars, all_reports, all_errors,
                   files0, extRemoved, calls, cur, pathlib, kbase, kext1, kext2>>

KeyNext == BuildKeys

SpecKey == KeyInit /\ [][KeyNext]_vars

----------------------------------------------------------------------------
(* Properties *)

Scanned(c) == c.outcome \in {"dry_run", "deleted"}
Kinds_of(report) == {report[k].kind : k \in DOMAIN report}
KeyOf(f) == build_key(f[3], args.ignore_ext, args.ignore_case)

Unmatched(mine, other) == {f \in mine : \A g \in other : KeyOf(f) # KeyOf(g)}

\* C2: the orphan list of a side is exactly the set of the files of that side whose
\* key is the key of no file of the other side, in every call that scanned and in
\* the call in progress; in the scenario (image {a.jpg, b.jpg, c.jpg}, index
\* {a.idx, b.idx, d.idx}, ignore-ext) the orphans are {c.jpg} and {d.idx}.
C2_OrphansExact ==
    /\ \A k \in DOMAIN calls :
        Scanned(calls[k]) =>
            /\ calls[k].orphan_img = Unmatched(calls[k].image_files, calls[k].index_files)
            /\ calls[k].orphan_idx = Unmatched(calls[k].index_files, calls[k].image_files)
    /\ pc \in {"delete_image", "delete_index"} =>
            /\ orphan_img = Unmatched(image_files, index_files)
            /\ orphan_idx = Unmatched(index_files, image_files)
    /\ (files0 = ScenarioFiles /\ calls # <<>>) =>
            /\ calls[1].orphan_img = {<<"train", "image", Jpg("c")>>}
            /\ calls[1].orphan_idx = {<<"train", "index", Idx("d")>>}

\* the scenario has been scanned
C2_Witness ==
    /\ files0 = ScenarioFiles
    /\ calls # <<>>
    /\ calls[1].image_files = {f \in ScenarioFiles : f[2] = "image"}
    /\ calls[1].orphan_img = {<<"train", "image", Jpg("c")>>}

\* the error lines of call c for one side
ErrSide(c, sd) == {j \in DOMAIN c.errors : c.errors[j].side = sd}

C4_EveryOrphanAttempted ==
    /\ \A k \in DOMAIN calls :
        LET c == calls[k] IN
        c.outcome = "deleted" =>
            /\ c.tried = [f \in c.orphan_img \cup c.orphan_idx |-> 1]
            /\ c.del_img + Cardinality(ErrSide(c, "image")) = Cardinality(c.orphan_img)
            /\ c.del_idx + Cardinality(ErrSide(c, "index")) = Cardinality(c.orphan_idx)
            /\ {c.errors[j].path : j \in DOMAIN c.errors} = c.raised
            /\ Len(c.errors) = Cardinality(c.raised)
            /\ \A j \in DOMAIN c.errors :
                /\ c.errors[j].reason = "PermissionError"
                /\ c.errors[j].path \in
                     (IF c.errors[j].side = "image" THEN c.orphan_img ELSE c.orphan_idx)
                /\ \A m \in DOMAIN c.errors :
                     (c.errors[j].side = "image" /\ c.errors[m].side = "index") => j < m
            /\ c.report[Len(c.report) - 1] =
                 [kind |-> "deleted", side |-> "image", count |-> c.del_img,
                  of |-> Cardinality(c.orphan_img)]
            /\ c.report[Len(c.report)] =
                 [kind |-> "deleted", side |-> "index", count |-> c.del_idx,
                  of |-> Cardinality(c.orphan_idx)]
    /\ pc \in {"delete_image", "delete_index"} =>
            /\ \A f \in DOMAIN cur.tried : cur.tried[f] <= 1
            /\ pc = "delete_image" =>
                /\ \A f \in orphan_idx : cur.tried[f] = 0
                /\ todo = {f \in orphan_img : cur.tried[f] = 0}
            /\ pc = "delete_index" =>
                /\ \A f \in orphan_img : cur.tried[f] = 1
                /\ todo = {f \in orphan_idx : cur.tried[f] = 0}

\* an image orphan could not be removed and an index orphan was removed after it
C4_Witness ==
    /\ pc = "delete_index"
    /\ del_err_img # <<>>
    /\ deleted > 0

\* C5: an orphan that is gone when the program comes to remove it (another process
\* removed it after the scan) counts as a successful deletion and gets no error
\* line, and the other orphans are still attempted.
C5_GoneCountsAsDeleted ==
    /\ cur.gone \subseteq extRemoved
    /\ \A k \in DOMAIN calls :
        LET c == calls[k] IN
        c.outcome = "deleted" =>
            /\ c.gone \subseteq (c.orphan_img \cup c.orphan_idx) \cap c.ext
            /\ \A j \in DOMAIN c.errors : c.errors[j].path \notin c.gone
            /\ c.del_img >= Cardinality(c.gone \cap c.orphan_img)
            /\ c.del_img = Cardinality(c.orphan_img \ c.raised)
            /\ c.del_idx = Cardinality(c.orphan_idx \ c.raised)
            /\ \A f \in c.orphan_img \cup c.orphan_idx : c.tried[f] = 1

\* a finished call one of whose two orphans had been removed by the other process
C5_Witness ==
    /\ calls # <<>>
    /\ calls[1].outcome = "deleted"
    /\ calls[1].gone # {}
    /\ Cardinality(calls[1].orphan_img \cup calls[1].orphan_idx) = 2
    /\ calls[1].del_img + calls[1].del_idx = 2

\* <root>/<split>/<sub> is absent in the tree
Absent(s, d) == rootKind[s] # "dir" \/ subKind[s][d] = "absent"

\* the subdirectories of split s, among the two the run uses, that are absent
AbsentDirs(s) ==
    {<<s, d>> : d \in {e \in {args.image_dirname, args.index_dirname} : Absent(s, e)}}

\* call c reported no scan, recorded no error and touched no file
Quiet(c) ==
    /\ c.errors = <<>>
    /\ Kinds_of(c.report) \cap {"scan", "orphans", "deleted", "dry_run"} = {}
    /\ c.tried = <<>>
    /\ c.files_after = c.files_before

\* C6: a split whose root is absent is reported by the 'split missing' line alone; a
\* split whose root exists and that lacks the image or the index subdirectory is
\* reported by the header line and one line for each absent subdirectory, no more
\* and no less.  Either way the report has no scan counts, there is no error, no file
\* is removed (even with the delete flag), and the run goes on to the next split:
\* every split of the list gets its report, in order.
C6_StructuralAbsence ==
    /\ \A k \in DOMAIN calls :
        LET c == calls[k]
            s == c.split
        IN  /\ s = args.splits[k]
            /\ all_reports[k] = c.report
            /\ rootKind[s] = "absent" =>
                /\ c.report = <<[kind |-> "split_missing", split |-> s, path |-> <<s>>]>>
                /\ Quiet(c)
            /\ (rootKind[s] # "absent" /\ AbsentDirs(s) # {}) =>
                /\ c.report[1].kind = "subdir_missing"
                /\ Len(c.report) = 1 + Cardinality(AbsentDirs(s))
                /\ \A j \in 2..Len(c.report) : c.report[j].kind = "missing"
                /\ {c.report[j].path : j \in 2..Len(c.report)} = AbsentDirs(s)
                /\ Quiet(c)
    /\ Len(calls) = i - 1
    /\ pc = "done" => Len(calls) = Len(args.splits)
    /\ Len(all_reports) = Len(calls)

\* a delete run over two splits: the first lacks its image subdirectory and has files
\* in its index subdirectory, the second was scanned and lost an orphan
C6_Witness ==
    /\ pc = "done"
    /\ args.do_delete
    /\ Len(calls) = 2
    /\ calls[1].outcome = "subdir_missing"
    /\ Len(calls[1].report) = 2
    /\ \E f \in files : f[1] = calls[1].split
    /\ calls[2].outcome = "deleted"
    /\ calls[2].del_img > 0

\* C7 as stated: a split whose image or index path exists and is no directory is
\* reported as lacking a subdirectory: no scan counts, no orphan, no deletion.
C7_NotADirectoryIsMissing ==
    \A k \in DOMAIN calls :
        LET c == calls[k]
            s == c.split
        IN  (rootKind[s] = "dir" /\ \E d \in {args.image_dirname, args.index_dirname} :
                                        subKind[s][d] = "file")
            => /\ c.outcome = "subdir_missing"
               /\ c.orphan_img = {} /\ c.orphan_idx = {}
               /\ Quiet(c)

\* what a call on split s, alone on the tree as it was when the run started, scans
AloneImage(s) == list_files(files0, s, args.image_dirname)
AloneIndex(s) == list_files(files0, s, args.index_dirname)
AloneOrphans(s) ==
    compute_orphans(collect_keys_map(AloneImage(s), args.ignore_ext, args.ignore_case),
                    collect_keys_map(AloneIndex(s), args.ignore_ext, args.ignore_case))
AloneReport(s) ==
    ScanReport(s, AloneImage(s), AloneIndex(s), AloneOrphans(s)[1], AloneOrphans(s)[2])

\* call c scanned, found and attempted what it would have alone on the initial tree
AsAlone(c) ==
    Scanned(c) =>
        /\ c.image_files = AloneImage(c.split)
        /\ c.index_files = AloneIndex(c.split)
        /\ c.orphan_img = AloneOrphans(c.split)[1]
        /\ c.orphan_idx = AloneOrphans(c.split)[2]
        /\ SubSeq(c.report, 1, Len(AloneReport(c.split))) = AloneReport(c.split)
        /\ {f \in DOMAIN c.tried : c.tried[f] > 0} =
                            (IF args.do_delete
                             THEN AloneOrphans(c.split)[1] \cup AloneOrphans(c.split)[2]
                             ELSE {})

KeysIn(F, s, d) == {KeyOf(f) : f \in {g \in F : g[1] = s /\ g[2] = d}}

\* C10: after a delete run on a split whose image and index subdirectories are
\* directories, in which no removal failed and nothing else touched the tree, the
\* files left in the image directory and those left in the index directory have the
\* same keys, and every file whose key was on both sides before is still there.
C10_SidesMatchAfterDelete ==
    \A k \in DOMAIN calls :
        LET c == calls[k]
            s == c.split
            im == args.image_dirname
            ix == args.index_dirname
        IN  (/\ c.outcome = "deleted"
             /\ subKind[s][im] = "dir" /\ subKind[s][ix] = "dir"
             /\ c.errors = <<>>
             /\ c.ext = {})
            => /\ KeysIn(c.files_after, s, im) = KeysIn(c.files_after, s, ix)
               /\ \A f \in c.files_before :
                    (/\ f[1] = s
                     /\ KeyOf(f) \in KeysIn(c.files_before, s, im)
                     /\ KeyOf(f) \in KeysIn(c.files_before, s, ix))
                    => f \in c.files_after

\* the scenario after its delete run: c.jpg and d.idx are gone, the four others stay
C10_Witness ==
    /\ calls # <<>>
    /\ calls[1].outcome = "deleted"
    /\ calls[1].errors = <<>> /\ calls[1].ext = {}
    /\ calls[1].files_before = ScenarioFiles
    /\ Cardinality(calls[1].files_after) = 4

\* the text after the last dot of no name is stripped: is s a name of dots only?
OnlyDots(s) == \A k \in DOMAIN s : s[k] = Dot

\* str.lower() when ignore_case is set
Fold(s) == IF args.ignore_case THEN Lower(s) ELSE s

\* C8 as stated: with ignore-ext, the names <base>.<ext1> and <base>.<ext2> have the
\* same key for every base and every two extensions, the empty base and the empty
\* extension included ("." and ".." are no file names).
C8_SameBaseSameKey ==
    (/\ pc = "key_done"
     /\ args.ignore_ext
     /\ {Dotted(kbase, kext1), Dotted(kbase, kext2)} \cap {<<Dot>>, <<Dot, Dot>>} = {})
    => keys.one = keys.two

\* C8, amended: with ignore-ext, for every base that has a character other than a dot
\* and every two non-empty extensions, the names <base>.<ext1> and <base>.<ext2> have
\* the same key, which is the base (lower-cased under ignore-case): only the last
\* dot-delimited suffix is stripped; and a name with no dot is its own key.
C8_SameBaseSameKeyNonEmpty ==
    (pc = "key_done" /\ args.ignore_ext) =>
        /\ (~OnlyDots(kbase) /\ kext1 # <<>> /\ kext2 # <<>>) =>
                /\ keys.one = keys.two
                /\ keys.one = Fold(kbase)
        /\ (kbase # <<>> /\ \A k \in DOMAIN kbase : kbase[k] # Dot) =>
                keys.bare = Fold(kbase)

\* the keys of a.A.x and a.A.y under ignore-ext and ignore-case
C8_Witness ==
    /\ pc = "key_done"
    /\ args.ignore_ext /\ args.ignore_case
    /\ kbase = <<"a", Dot, "A">>
    /\ kext1 = <<"x">> /\ kext2 = <<"y">>
    /\ keys.one = <<"a", Dot, "a">>

====
